---------------------------- MODULE Spec2Model ----------------------------
(***************************************************************************)
(* A model of score-gaps-across-assessments: the selection filter and the  *)
(* pivot of app.py, the pivot engine var_clean_df and the cell classifiers *)
(* of utils_app.py / app.py / app1.py.                                     *)
(*                                                                         *)
(* Conventions.                                                            *)
(*  - a DataFrame is a sequence of row records, in row order;              *)
(*  - a nullable float (a "Cohen's d" cell) is <<>> for NaN and <<v>> for  *)
(*    the value v, v counted in thousandths (0.45 is 450);                 *)
(*  - a Python string is a TLA+ string; Python's string order, which TLA+  *)
(*    does not have, is the order of the table LexOrder;                   *)
(*  - a Python dict is a sequence of <<key, value>> pairs in insertion     *)
(*    order.                                                               *)
(***************************************************************************)
EXTENDS Integers, Sequences, FiniteSets, TLC

VARIABLES
    response_status,     \* app.py:60    the status of the response, 0 before it
    load_result,         \* app.py:68    what load_original_data returned
    st_errors,           \* app.py:64    the messages st.error has shown
    merged_df,           \* app.py:68    the fact table loaded at start-up
    selected_variables,  \* app.py:119   the "Select Variable" multiselect
    selected_subjects,   \* app.py:121   the "Select Subjects" multiselect
    selected_jurisdictions, \* app1.py:65 the "Select Jurisdiction" multiselect
    filtered_df,         \* app.py:147   the filter's result
    pivot_df,            \* app.py:173   the grid app.py renders
    df_dict,             \* utils_app.py:84  what var_clean_df returned last
    assessment_dict,     \* utils_app.py:68  the assessment ordering (an argument)
    order_dict,          \* utils_app.py:327 the group ordering
    raised,              \* the exception var_clean_df ended with, "" for none
    calls,               \* the calls of var_clean_df since the last rerun
    value,               \* the classifiers' argument
    style,               \* what each classifier returned for value
    footnote_variables,  \* utils_app.py:138  make_footnote's argument variables
    footnote_text,       \* utils_app.py:141  the footnote, piece by piece
    full_df,             \* utils_app.py:40   the table the formatters are given
    summary_df,          \* utils_app.py:53   what each formatter made of it
    rendered,            \* utils_app.py:311  the export's numbers as displayed
    sheet_name,          \* utils_create.py:38 read_google_sheet's argument sheet_name
    max_retries,         \* utils_create.py:38 its argument max_retries
    retry_delay,         \* utils_create.py:39 its argument retry_delay
    attempt,             \* utils_create.py:58 the iterations of its loop so far
    requests_log,        \* its requests and its sleeps, in order
    df_bound,            \* utils_create.py:63 its local df has a value
    read_raised,         \* the exception that left it, "" for none
    order_list,          \* utils_app.py:263 reorder_assessment_dict's argument order_list
    reordered_assessment_dict,  \* utils_app.py:275 what it returned
    variables_in_tab,    \* utils_app.py:172 reorder_columns_by_variable's argument
    tab_df,              \* utils_app.py:172 its argument pivot_df, then what it returned
    pc                   \* which handler ran last

vars == << response_status, load_result, st_errors, merged_df,
           selected_variables, selected_subjects, selected_jurisdictions,
           filtered_df, pivot_df, df_dict, assessment_dict, order_dict, raised,
           calls, value,
           style, footnote_variables, footnote_text, full_df, summary_df, rendered,
           sheet_name, max_retries, retry_delay, attempt, requests_log, df_bound,
           read_raised, order_list, reordered_assessment_dict, variables_in_tab,
           tab_df, pc >>

\* The variables of the session's tables, of the classifiers and of
\* make_footnote, and for each of the three the variables of the others.
load_vars == << response_status, load_result, st_errors >>
session_vars == << load_vars, merged_df, selected_variables, selected_subjects,
                   selected_jurisdictions, filtered_df, pivot_df, df_dict,
                   assessment_dict, order_dict, raised, calls >>
classify_vars == << value, style >>
footnote_vars == << footnote_variables, footnote_text >>
fulltable_vars == << full_df, summary_df, rendered >>
sheet_vars == << sheet_name, max_retries, retry_delay, attempt, requests_log,
                 df_bound, read_raised >>
reorder_vars == << order_list, reordered_assessment_dict >>
tab_vars == << variables_in_tab, tab_df >>
beside_session == << classify_vars, footnote_vars, fulltable_vars, sheet_vars,
                     reorder_vars, tab_vars >>
beside_classify == << session_vars, footnote_vars, fulltable_vars, sheet_vars,
                     reorder_vars, tab_vars >>
beside_footnote == << session_vars, classify_vars, fulltable_vars, sheet_vars,
                     reorder_vars, tab_vars >>
beside_fulltable == << session_vars, classify_vars, footnote_vars, sheet_vars,
                     reorder_vars, tab_vars >>
beside_sheet == << session_vars, classify_vars, footnote_vars, fulltable_vars,
                     reorder_vars, tab_vars >>
beside_reorder == << load_vars, merged_df, selected_variables, selected_subjects,
                     selected_jurisdictions, filtered_df, pivot_df, df_dict,
                     order_dict, raised, calls, classify_vars, footnote_vars,
                     fulltable_vars, sheet_vars, tab_vars >>

-----------------------------------------------------------------------------
(* Bounds of the model. *)

MaxRows == 3        \* rows in the fact table
MaxCalls == 2       \* calls of var_clean_df on one filter result
MaxAbs  == 1300     \* classifier arguments range over -MaxAbs..MaxAbs thousandths
MaxVariables == 3   \* Variables in the list given to make_footnote
MaxFullRows == 3    \* rows in the table given to the formatters
MaxShown == 300     \* displayed values range over -MaxShown..MaxShown thousandths
MaxRetries == 3     \* read_google_sheet's max_retries ranges over 0..MaxRetries
MaxDelay == 1       \* and its retry_delay over 0..MaxDelay seconds
MaxOrder == 3       \* entries in the order_list given to reorder_assessment_dict
MaxColumns == 2     \* Grouping columns of a frame given to reorder_columns_by_variable

-----------------------------------------------------------------------------
(* Generic helpers on sequences. *)

Range(s) == { s[i] : i \in DOMAIN s }

RECURSIVE Filter(_, _)
\* The subsequence of s of the elements in the set keep, order kept.
Filter(s, keep) ==
    IF s = << >> THEN << >>
    ELSE IF Head(s) \in keep THEN << Head(s) >> \o Filter(Tail(s), keep)
         ELSE Filter(Tail(s), keep)

RECURSIVE Flatten(_)
Flatten(ss) == IF ss = << >> THEN << >> ELSE Head(ss) \o Flatten(Tail(ss))

IsNull(x) == x = << >>
NaN == << >>

\* Python's order on the strings the model uses (sorted() of them).
LexOrder ==
    << "2023", "2024", "999", "ACT - US - 2023", "Age", "Another gender", "Assessment",
       "Canada", "Casper - US - 2024", "Citizenship", "Domestic", "Female", "Gender",
       "International", "Male", "No Response", "Nonbinary",
       "SAT - Total - US - 2023", "SAT - Total - US - 2023 - US - 2023", "US" >>

Rank(s) == CHOOSE i \in DOMAIN LexOrder : LexOrder[i] = s

RECURSIVE SortStrings(_)
\* sorted(S) for a set S of strings.
SortStrings(S) ==
    IF S = {} THEN << >>
    ELSE LET m == CHOOSE x \in S : \A y \in S : Rank(x) <= Rank(y)
         IN  << m >> \o SortStrings(S \ {m})

\* dict lookup: the value stored under key k (k is a key of d).
Get(d, k) == (CHOOSE p \in Range(d) : p[1] = k)[2]
Keys(d) == { p[1] : p \in Range(d) }

-----------------------------------------------------------------------------
(* The fact table. *)

FactRow(v, s, j, y, g, d) ==
    [ Variable |-> v, Subject |-> s, Jurisdiction |-> j, Year |-> y,
      Grouping |-> g, d |-> d ]

\* app.py:116  Subject + ' - ' + Jurisdiction + ' - ' + Year.astype(str)
Index(r) == r.Subject \o " - " \o r.Jurisdiction \o " - " \o ToString(r.Year)

\* The rows a fact table of the model is made of.
RowUniverse ==
    { FactRow("Gender", "SAT - Total", "US", 2023, "Male", d) :
        d \in { NaN, << 0 >>, << 450 >> } }
    \cup
    { FactRow("Gender", "Casper", "US", 2024, "Another gender", << 450 >>),
      FactRow("Gender", "ACT", "US", 2023, "Male", << 450 >>),
      FactRow("Gender", "SAT - Total", "US", 2023, "Nonbinary", << 450 >>),
      FactRow("Age", "Casper", "US", 2024, "No Response", << 300 >>) }

\* A row whose Subject reads like the Assessment key of other rows.
KeyLikeSubjectRow ==
    FactRow("Age", "SAT - Total - US - 2023", "US", 2023, "No Response", << 300 >>)

RECURSIVE Tables(_, _)
\* The tables (the lists) of at most n rows of the set rows.
Tables(rows, n) ==
    IF n = 0 THEN { << >> }
    ELSE LET T == Tables(rows, n - 1)
         IN  T \cup { Append(t, r) : t \in { u \in T : Len(u) = n - 1 }, r \in rows }

-----------------------------------------------------------------------------
(* app.py: the selection filter. *)

\* app.py:144-145  an empty selection is replaced by the table's Subjects.
subjects_or_default(merged, subjects) ==
    IF subjects = {} THEN { r.Subject : r \in Range(merged) } ELSE subjects

\* app.py:147-150  the rows with Variable and Index among the selections.
app_filtered_df(merged, variables, subjects) ==
    LET sel == subjects_or_default(merged, subjects)
    IN  Filter(merged, { r \in Range(merged) :
                            r.Variable \in variables /\ Index(r) \in sel })

\* app1.py:104-105  an empty selection is replaced by the table's Subjects.
app1_subjects_or_default(merged, subjects) ==
    IF subjects = {} THEN { r.Subject : r \in Range(merged) } ELSE subjects

\* app1.py:107-111  the rows with Variable, Jurisdiction and Subject among the
\* selections; the Year takes no part.
app1_filtered_df(merged, variables, jurisdictions, subjects) ==
    LET sel == app1_subjects_or_default(merged, subjects)
    IN  Filter(merged, { r \in Range(merged) :
                            /\ r.Variable \in variables
                            /\ r.Jurisdiction \in jurisdictions
                            /\ r.Subject \in sel })

-----------------------------------------------------------------------------
(* pandas' DataFrame.pivot_table(index, columns='Grouping',                *)
(* values="Cohen's d", aggfunc='first') on a frame whose rows carry the    *)
(* index label key(r).  A frame is [columns, rows]: the column names in    *)
(* order, and the rows in order, each [Assessment |-> the label column     *)
(* (<<label>>, or NaN), cells |-> the value of each Grouping column].      *)

\* A variant of first that takes the value of the first row of the key, null
\* or not.
first_of_any(df, a, g) ==
    LET hits == { i \in DOMAIN df : Index(df[i]) = a /\ df[i].Grouping = g }
    IN  IF hits = {} THEN NaN
        ELSE df[CHOOSE i \in hits : \A j \in hits : i <= j].d

\* GroupBy.first: the first non-null "Cohen's d" of the rows of df with index
\* label a and Grouping g; NaN when there is none.
first(df, a, g) ==
    LET hits == { i \in DOMAIN df :
                    Index(df[i]) = a /\ df[i].Grouping = g /\ ~IsNull(df[i].d) }
    IN  IF hits = {} THEN NaN
        ELSE df[CHOOSE i \in hits : \A j \in hits : i <= j].d

\* utils_app.py:95-98, app.py:173-176.  The (label, Grouping) pairs that keep a
\* value after the aggregation (dropna drops the all-null ones), the labels
\* and the Groupings sorted.
pivot_table(df) ==
    LET pairs == { << Index(r), r.Grouping >> :
                      r \in { x \in Range(df) : ~IsNull(x.d) } }
        index == SortStrings({ p[1] : p \in pairs })
        cols  == SortStrings({ p[2] : p \in pairs })
    IN  [ columns |-> cols,
          rows    |-> [ i \in DOMAIN index |->
                          [ Assessment |-> << index[i] >>,
                            cells |-> [ g \in Range(cols) |-> first(df, index[i], g) ] ] ] ]

\* utils_app.py:101, app.py:180  reset_index: the label becomes the first column.
reset_index(frame, name) ==
    [ columns |-> << name >> \o frame.columns, rows |-> frame.rows ]

\* frame[names]: the columns named, in that order.
select_columns(frame, names) ==
    [ columns |-> names,
      rows    |-> [ i \in DOMAIN frame.rows |->
                      [ Assessment |-> frame.rows[i].Assessment,
                        cells |-> [ g \in Range(names) \cap DOMAIN frame.rows[i].cells |->
                                      frame.rows[i].cells[g] ] ] ] ]

-----------------------------------------------------------------------------
(* utils_app.py: var_clean_df. *)

\* A variant of groupby_Variable that hands every Variable the whole table.
groupby_unpartitioned(df) ==
    LET keys == SortStrings({ r.Variable : r \in Range(df) })
    IN  [ i \in DOMAIN keys |-> << keys[i], df >> ]

\* utils_app.py:87-88  df.groupby('Variable'): the Variables present, sorted,
\* each with its rows in table order.
groupby_Variable(df) ==
    LET keys == SortStrings({ r.Variable : r \in Range(df) })
    IN  [ i \in DOMAIN keys |->
            << keys[i], Filter(df, { r \in Range(df) : r.Variable = keys[i] }) >> ]

\* utils_app.py:104-108  the registry's assessments that are labels of the pivot,
\* group by group.
ordered_assessments(frame, adict) ==
    LET present == { r.Assessment[1] : r \in Range(frame.rows) }
    IN  Flatten([ i \in DOMAIN adict |-> Filter(adict[i][2], present) ])

HasDuplicates(s) == \E i, j \in DOMAIN s : i < j /\ s[i] = s[j]

\* utils_app.py:111  pd.Categorical(labels, categories): a label that is no
\* category becomes NaN.
as_categorical(frame, cats) ==
    [ columns |-> frame.columns,
      rows    |-> [ i \in DOMAIN frame.rows |->
                      [ Assessment |-> IF frame.rows[i].Assessment[1] \in Range(cats)
                                       THEN frame.rows[i].Assessment ELSE NaN,
                        cells |-> frame.rows[i].cells ] ] ]

\* The position of category c in cats.
CatCode(cats, c) == CHOOSE k \in DOMAIN cats : cats[k] = c

RECURSIVE SortByCode(_, _, _)
\* The row numbers in the set todo, by ascending category code.
SortByCode(rows, cats, todo) ==
    IF todo = {} THEN << >>
    ELSE LET m == CHOOSE i \in todo : \A j \in todo :
                    CatCode(cats, rows[i].Assessment[1]) <= CatCode(cats, rows[j].Assessment[1])
         IN  << m >> \o SortByCode(rows, cats, todo \ {m})

RECURSIVE Ascending(_)
\* The numbers of the set S in ascending order.
Ascending(S) ==
    IF S = {} THEN << >>
    ELSE LET m == CHOOSE i \in S : \A j \in S : i <= j
         IN  << m >> \o Ascending(S \ {m})

\* utils_app.py:112  sort_values('Assessment'): the rows by category, the NaN
\* labels last in the order they had.
sort_values_Assessment(frame, cats) ==
    LET known == { i \in DOMAIN frame.rows : ~IsNull(frame.rows[i].Assessment) }
        order == SortByCode(frame.rows, cats, known)
                   \o Ascending(DOMAIN frame.rows \ known)
    IN  [ columns |-> frame.columns,
          rows    |-> [ k \in DOMAIN order |-> frame.rows[order[k]] ] ]

\* A variant of ordered_columns that keeps the listed Groupings in the order
\* the pivot has them.
ordered_columns_as_pivoted(frame, variable, odict) ==
    << "Assessment" >> \o
    ( IF variable \in Keys(odict)
      THEN Filter(frame.columns, Range(Get(odict, variable)))
      ELSE << >> )

\* utils_app.py:114-118  'Assessment', then the Groupings of the Variable's
\* order list that are columns of the pivot.
ordered_columns(frame, variable, odict) ==
    << "Assessment" >> \o
    ( IF variable \in Keys(odict)
      THEN Filter(Get(odict, variable), Range(frame.columns))
      ELSE << >> )

\* utils_app.py:93-124  one Variable's grid.
clean_one(group_df, variable, adict, odict) ==
    LET p0   == reset_index(pivot_table(group_df), "Assessment")
        cats == ordered_assessments(p0, adict)
        p1   == sort_values_Assessment(as_categorical(p0, cats), cats)
    IN  select_columns(p1, ordered_columns(p1, variable, odict))

\* utils_app.py:111  pd.Categorical raises ValueError when its categories are
\* not unique.
clean_one_raises(group_df, adict) ==
    HasDuplicates(ordered_assessments(reset_index(pivot_table(group_df), "Assessment"), adict))

\* utils_app.py:68-127  the dict Variable -> grid, in groupby order.
var_clean_df(df, adict, odict) ==
    LET grouped == groupby_Variable(df)
    IN  [ i \in DOMAIN grouped |->
            << grouped[i][1], clean_one(grouped[i][2], grouped[i][1], adict, odict) >> ]

var_clean_df_raises(df, adict) ==
    LET grouped == groupby_Variable(df)
    IN  \E i \in DOMAIN grouped : clean_one_raises(grouped[i][2], adict)

-----------------------------------------------------------------------------
(* app.py: the grid of the "Effect Size Summary". *)

\* app.py:183  pivot_df.loc[:, (pivot_df != 0).any(axis=0)]: a column stays when
\* some row's value in it is not equal to 0 (NaN != 0 holds, and so does
\* label != 0).
drop_zero_columns(frame) ==
    LET keep == { c \in Range(frame.columns) :
                    \E i \in DOMAIN frame.rows :
                        IF c = "Index" THEN TRUE
                        ELSE frame.rows[i].cells[c] # << 0 >> }
    IN  select_columns(frame, Filter(frame.columns, keep))

\* app.py:170-183
app_pivot_df(df) == drop_zero_columns(reset_index(pivot_table(df), "Index"))

-----------------------------------------------------------------------------
(* The cell classifiers.  An argument is [kind, v]: kind "float" or "int"  *)
(* with v the number in thousandths, or kind "nan", "None", "str" (v 0).   *)
(* abs_value <= 0.2 of the source reads a <= 200 here.                     *)

IsNumber(x) == x.kind \in { "float", "int" }
Abs(n) == IF n < 0 THEN -n ELSE n
Negated(x) == [ kind |-> x.kind, v |-> -x.v ]

\* A variant of effect_size_color_scale whose first band excludes 0.2.
effect_size_color_scale_open(x) ==
    IF x.kind \in { "float", "int" }
    THEN LET abs_value == Abs(x.v)
         IN  IF abs_value < 200 THEN "background-color: #96D377"
             ELSE IF 200 < abs_value /\ abs_value <= 400 THEN "background-color: #D9EAD3"
             ELSE IF 400 < abs_value /\ abs_value <= 600 THEN "background-color: #ECEED0"
             ELSE IF 600 < abs_value /\ abs_value <= 800 THEN "background-color: #FEF2CC"
             ELSE IF 800 < abs_value /\ abs_value <= 1000 THEN "background-color: #F9DFCC"
             ELSE IF 1000 < abs_value /\ abs_value <= 1200 THEN "background-color: #F4CCCC"
             ELSE IF abs_value > 1200 THEN "background-color: #EFB9CC"
             ELSE ""
    ELSE ""

\* A variant of effect_size_color_scale that bands the value, not its abs().
effect_size_color_scale_signed(x) ==
    IF x.kind \in { "float", "int" }
    THEN LET abs_value == x.v
         IN  IF abs_value <= 200 THEN "background-color: #96D377"
             ELSE IF 200 < abs_value /\ abs_value <= 400 THEN "background-color: #D9EAD3"
             ELSE IF 400 < abs_value /\ abs_value <= 600 THEN "background-color: #ECEED0"
             ELSE IF 600 < abs_value /\ abs_value <= 800 THEN "background-color: #FEF2CC"
             ELSE IF 800 < abs_value /\ abs_value <= 1000 THEN "background-color: #F9DFCC"
             ELSE IF 1000 < abs_value /\ abs_value <= 1200 THEN "background-color: #F4CCCC"
             ELSE IF abs_value > 1200 THEN "background-color: #EFB9CC"
             ELSE ""
    ELSE ""

\* utils_app.py:19-38
effect_size_color_scale(x) ==
    IF x.kind \in { "float", "int" }       \* isinstance(value, (int, float)) and not NaN
    THEN LET abs_value == Abs(x.v)
         IN  IF abs_value <= 200 THEN "background-color: #96D377"
             ELSE IF 200 < abs_value /\ abs_value <= 400 THEN "background-color: #D9EAD3"
             ELSE IF 400 < abs_value /\ abs_value <= 600 THEN "background-color: #ECEED0"
             ELSE IF 600 < abs_value /\ abs_value <= 800 THEN "background-color: #FEF2CC"
             ELSE IF 800 < abs_value /\ abs_value <= 1000 THEN "background-color: #F9DFCC"
             ELSE IF 1000 < abs_value /\ abs_value <= 1200 THEN "background-color: #F4CCCC"
             ELSE IF abs_value > 1200 THEN "background-color: #EFB9CC"
             ELSE ""
    ELSE ""

\* app.py:124-141  abs() of None or of a string raises TypeError; every
\* comparison with NaN is false.
color_scale(x) ==
    IF x.kind \in { "None", "str" } THEN "raise TypeError"
    ELSE IF x.kind = "nan" THEN "#FFFFFF"
    ELSE LET abs_value == Abs(x.v)
         IN  IF abs_value <= 200 THEN "#FFF2CD"
             ELSE IF 200 < abs_value /\ abs_value <= 400 THEN "#D9EAD3"
             ELSE IF 400 < abs_value /\ abs_value <= 600 THEN "#ECEED0"
             ELSE IF 600 < abs_value /\ abs_value <= 800 THEN "#FEF2CC"
             ELSE IF 800 < abs_value /\ abs_value <= 1000 THEN "#F9DFCC"
             ELSE IF 1000 < abs_value /\ abs_value <= 1200 THEN "#F4CCCC"
             ELSE IF abs_value > 1200 THEN "#EFB9CC"
             ELSE "#FFFFFF"

\* app1.py:75-92
custom_color_map(x) ==
    IF x.kind \in { "None", "str" } THEN "raise TypeError"
    ELSE IF x.kind = "nan" THEN ""
    ELSE LET abs_value == Abs(x.v)
         IN  IF 0 < abs_value /\ abs_value <= 200 THEN "background-color: #CFE2F3"
             ELSE IF 200 < abs_value /\ abs_value <= 400 THEN "background-color: #D9EAD3"
             ELSE IF 400 < abs_value /\ abs_value <= 600 THEN "background-color: #ECEED0"
             ELSE IF 600 < abs_value /\ abs_value <= 800 THEN "background-color: #FEF2CC"
             ELSE IF 800 < abs_value /\ abs_value <= 1000 THEN "background-color: #F9DFCC"
             ELSE IF 1000 < abs_value /\ abs_value <= 1200 THEN "background-color: #F4CCCC"
             ELSE IF abs_value > 1200 THEN "background-color: #EFB9CC"
             ELSE ""

\* utils_app.py:226-255  the legend of effect_size_color_scale's colours.
legend_band(s) ==
    CASE s = "background-color: #96D377" -> "NEGLIGIBLE"
      [] s = "background-color: #D9EAD3" -> "SMALL"
      [] s = "background-color: #ECEED0" -> "SMALL_MODERATE"
      [] s = "background-color: #FEF2CC" -> "MODERATE"
      [] s = "background-color: #F9DFCC" -> "MODERATE_LARGE"
      [] s = "background-color: #F4CCCC" -> "LARGE"
      [] s = "background-color: #EFB9CC" -> "VERY_LARGE"
      [] OTHER -> "UNCLASSIFIED"

\* app.py:221-251  the legend of color_scale's colours.
app_legend_band(s) ==
    CASE s = "#FFF2CD" -> "NEGLIGIBLE"
      [] s = "#D9EAD3" -> "SMALL"
      [] s = "#ECEED0" -> "SMALL_MODERATE"
      [] s = "#FEF2CC" -> "MODERATE"
      [] s = "#F9DFCC" -> "MODERATE_LARGE"
      [] s = "#F4CCCC" -> "LARGE"
      [] s = "#EFB9CC" -> "VERY_LARGE"
      [] OTHER -> "UNCLASSIFIED"

\* app1.py:181-211  the legend of custom_color_map's colours.
app1_legend_band(s) ==
    CASE s = "background-color: #CFE2F3" -> "NEGLIGIBLE"
      [] s = "background-color: #D9EAD3" -> "SMALL"
      [] s = "background-color: #ECEED0" -> "SMALL_MODERATE"
      [] s = "background-color: #FEF2CC" -> "MODERATE"
      [] s = "background-color: #F9DFCC" -> "MODERATE_LARGE"
      [] s = "background-color: #F4CCCC" -> "LARGE"
      [] s = "background-color: #EFB9CC" -> "VERY_LARGE"
      [] OTHER -> "UNCLASSIFIED"

\* The arguments the classifiers are applied to.
Arguments ==
    { [ kind |-> "float", v |-> n ] : n \in (-MaxAbs) .. MaxAbs }
    \cup { [ kind |-> "int", v |-> 1000 * n ] : n \in -2 .. 2 }
    \cup { [ kind |-> k, v |-> 0 ] : k \in { "nan", "None", "str" } }

-----------------------------------------------------------------------------
(* The full-table formatters: create_full_table of utils_app.py and the    *)
(* summary_df of app.py and app1.py.  Their rows carry every column of the *)
(* fact table (Mean and SD in thousandths) and the derived column Index.   *)

FullRow(v, s, j, y, g, mean, sd, n, d) ==
    [ Variable |-> v, Subject |-> s, Jurisdiction |-> j, Year |-> y,
      Grouping |-> g, Mean |-> mean, SD |-> sd, N |-> n, d |-> d,
      Index |-> s \o " - " \o j \o " - " \o ToString(y) ]

\* The rows a table given to the formatters is made of.
FullRowUniverse ==
    { FullRow("Gender", "SAT - Total", "US", 2023, "Male", 1028000, 210500, 1000, << 450 >>),
      FullRow("Gender", "SAT - Total", "US", 999, "Male", 1010000, 200000, 20, NaN),
      FullRow("Gender", "SAT - Total", "US", 2023, "Another gender", 990250, 190000, 35, << -125 >>),
      FullRow("Gender", "Casper", "Canada", 2024, "Male", 500, 1000, 400, << 0 >>),
      FullRow("Age", "SAT - Total", "US", 2023, "No Response", 1000000, 0, 1, << 300 >>) }

\* utils_app.py:53-54, app.py:153  df[[...]]: the nine columns kept.
nine_columns(r) ==
    [ c \in { "Variable", "Subject", "Jurisdiction", "Year", "Grouping",
              "Mean", "SD", "N", "d" } |-> r[c] ]

\* app1.py:114  Year.astype(str)
year_as_str(r) == [ r EXCEPT !["Year"] = ToString(r.Year) ]

\* app1.py:117-123  the eight columns kept, two of them renamed.
app1_columns(r) ==
    [ c \in { "Selected Variable", "Subject", "Selected Jurisdiction", "Year",
              "Grouping", "Mean", "SD", "N" } |->
        CASE c = "Selected Variable" -> r.Variable
          [] c = "Selected Jurisdiction" -> r.Jurisdiction
          [] OTHER -> r[c] ]

\* The order of two sort keys: tuples of numbers, compared place by place.
RECURSIVE TupleLess(_, _)
TupleLess(a, b) ==
    IF a = << >> THEN FALSE
    ELSE IF Head(a) # Head(b) THEN Head(a) < Head(b)
         ELSE TupleLess(Tail(a), Tail(b))

\* utils_app.py:57-60, app.py:157-160  by=['Variable', 'Jurisdiction', 'Year',
\* 'Grouping']: strings in string order, the Year as the number it is.
by_numeric_year(r) ==
    << Rank(r.Variable), Rank(r.Jurisdiction), r.Year, Rank(r.Grouping) >>

\* app1.py:126  by=['Selected Variable', 'Selected Jurisdiction', 'Year',
\* 'Grouping'], the Year being the string line 114 made of it.
by_str_year(r) ==
    << Rank(r["Selected Variable"]), Rank(r["Selected Jurisdiction"]),
       Rank(r.Year), Rank(r.Grouping) >>

RECURSIVE InsertByKey(_, _, _)
\* keys sorted, with the number x put after the keys not greater than keys[x].
InsertByKey(order, keys, x) ==
    IF order = << >> THEN << x >>
    ELSE IF TupleLess(keys[x], keys[Head(order)]) THEN << x >> \o order
         ELSE << Head(order) >> \o InsertByKey(Tail(order), keys, x)

RECURSIVE SortedOrder(_, _)
\* The row numbers 1..n in ascending order of their keys, ties in row order.
SortedOrder(keys, n) ==
    IF n = 0 THEN << >> ELSE InsertByKey(SortedOrder(keys, n - 1), keys, n)

\* DataFrame.sort_values(by=...), keys being the sort key of every row.
sort_values(df, keys) ==
    LET order == SortedOrder(keys, Len(df))
    IN  [ k \in DOMAIN order |-> df[order[k]] ]

\* utils_app.py:40-65  (astype(int) leaves an integer Year as it is)
create_full_table(df) ==
    LET summary == [ i \in DOMAIN df |-> nine_columns(df[i]) ]
    IN  sort_values(summary, [ i \in DOMAIN summary |-> by_numeric_year(summary[i]) ])

\* app.py:152-160
app_summary_df(df) ==
    LET summary == [ i \in DOMAIN df |-> nine_columns(df[i]) ]
    IN  sort_values(summary, [ i \in DOMAIN summary |-> by_numeric_year(summary[i]) ])

\* app1.py:113-126
app1_summary_df(df) ==
    LET summary == [ i \in DOMAIN df |-> app1_columns(year_as_str(df[i])) ]
    IN  sort_values(summary, [ i \in DOMAIN summary |-> by_str_year(summary[i]) ])

-----------------------------------------------------------------------------
(* The display formats '{:.2f}' and '{:.0f}'.  A displayed string is the   *)
(* sequence of its characters; a float is counted in thousandths.          *)

\* The thousandths a, a % 10 = 5 and a < 400, whose float a / 1000 lies above
\* the halfway point of its two neighbours with two decimals (0.005 is stored
\* as 0.005000000000000000104...), so that the float is rounded up: by
\* '{:.2f}' and by round(x, 2) alike, which both round the stored value
\* correctly.  The other halfway values lie below it, or on it with an even
\* neighbour below (0.125).
HalfwayUp ==
    { 5, 25, 35, 55, 65, 85, 95, 115, 135, 165, 195, 225, 255, 265, 275, 315,
      325, 335, 375, 385, 395 }

\* The hundredths the float a / 1000, a >= 0, is rounded to.
RoundedHundredths(a) ==
    (a \div 10) + ( IF (a % 10) > 5 \/ ((a % 10) = 5 /\ a \in HalfwayUp) THEN 1 ELSE 0 )


\* The character of the digit k.
DigitChar(k) == ToString(k)

RECURSIVE Digits(_)
\* The decimal digits of the natural number n.
Digits(n) ==
    IF n < 10 THEN << DigitChar(n) >>
    ELSE Digits(n \div 10) \o << DigitChar(n % 10) >>

\* A variant of format_2f that cuts the third decimal off.
format_2f_truncated(x) ==
    IF IsNull(x) THEN << "n", "a", "n" >>
    ELSE LET h == Abs(x[1]) \div 10
         IN  ( IF x[1] < 0 THEN << "-" >> ELSE << >> )
                \o Digits(h \div 100)
                \o << ".", DigitChar((h \div 10) % 10), DigitChar(h % 10) >>

\* utils_app.py:313-314, 316, app.py:195, app1.py:101  '{:.2f}'.format(x) for
\* the nullable float x.
format_2f(x) ==
    IF IsNull(x) THEN << "n", "a", "n" >>
    ELSE LET h == RoundedHundredths(Abs(x[1]))
         IN  ( IF x[1] < 0 THEN << "-" >> ELSE << >> )
                \o Digits(h \div 100)
                \o << ".", DigitChar((h \div 10) % 10), DigitChar(h % 10) >>

\* utils_app.py:312, 315  '{:.0f}'.format(n) for the integer n.
format_0f(n) ==
    ( IF n < 0 THEN << "-" >> ELSE << >> ) \o Digits(Abs(n))

\* app.py:189, 192  round(x, 2) for the nullable float x.
round_2(x) ==
    IF IsNull(x) THEN NaN
    ELSE << ( IF x[1] < 0 THEN -1 ELSE 1 ) * RoundedHundredths(Abs(x[1])) * 10 >>

\* utils_app.py:311-317  format_dict applied to a row of the export: the
\* numeric columns as displayed.
format_row(r) ==
    [ Year |-> format_0f(r.Year), Mean |-> format_2f(<< r.Mean >>),
      SD |-> format_2f(<< r.SD >>), N |-> format_0f(r.N), d |-> format_2f(r.d) ]

-----------------------------------------------------------------------------
(* utils_app.py: the comparison groups and the footnote. *)

\* utils_app.py:379-388
comparison ==
    << << "Race/Ethnicity", "White" >>,
       << "Gender", "Female" >>,
       << "Family Income", "> $100,000" >>,
       << "Parent Education", "Bachelor's Degree" >>,
       << "English Proficiency", "Advanced/Functionally Native/Native" >>,
       << "Home Language", "English" >>,
       << "Citizenship", "Domestic" >>,
       << "National School Lunch Program eligibility", "Not eligible" >> >>

\* A variant of dict_get without the fallback: what str() shows of None.
dict_get_none(d, k, default) == IF k \in Keys(d) THEN Get(d, k) ELSE "None"

\* dict.get(k, default)
dict_get(d, k, default) == IF k \in Keys(d) THEN Get(d, k) ELSE default

\* utils_app.py:146-149  the line of one Variable.
footnote_line(comparison_param, var) ==
    LET comparison_group == dict_get(comparison_param, var, "Unknown")
    IN  "The comparison group for <code>" \o var \o "</code> is <b>"
            \o comparison_group \o "</b><br>"

\* utils_app.py:138-169  footnote_text, as the sequence of the pieces the loop
\* appends to the heading; the string returned is their concatenation.
make_footnote(comparison_param, vs) ==
    << "<b>Footnotes:</b><br>" >>
        \o [ i \in DOMAIN vs |-> footnote_line(comparison_param, vs[i]) ]

\* The Variables make_footnote is asked about: some with a comparison group,
\* one without.
FootnoteVariables == { "Gender", "Citizenship", "Family Income", "Age" }

-----------------------------------------------------------------------------
(* The configuration. *)

\* utils_app.py:327-376  order_dict: Variable -> its Groupings, in column order.
order_dict_0 ==
    << << "Race/Ethnicity",
          << "Black", "Hispanic", "Asian", "Indigenous/Native",
             "Native Hawaiian/Other Pacific Islander", "Another Race/Ethnicity",
             "Multiple Races/Ethnicities", "No Response" >> >>,
       << "Gender", << "Male", "Another gender", "No Response" >> >>,
       << "Parent Education",
          << "No High School Diploma", "High School Diploma", "Associate Degree",
             "Graduate Degree", "No Response" >> >>,
       << "Family Income",
          << "< $50,000", "$50,000 to $74,999", "$75,000 to $99,999", "> $100,000",
             "No Response" >> >>,
       << "National School Lunch Program eligibility",
          << "Eligible", "Information not available" >> >>,
       << "Citizenship", << "International", "Domestic", "No Response" >> >>,
       << "Home Language", << "Another Language", "English", "No Response" >> >>,
       << "English Proficiency", << "Basic/Fair/Competent", "No Response" >> >> >>

\* utils_app.py:319-324  tabs_dicts: tab -> the Variables it shows.
tabs_dicts ==
    << << "Gender", << "Gender" >> >>,
       << "Race/Ethnicity", << "Race/Ethnicity" >> >>,
       << "SES", << "Family Income", "Parent Education",
                    "National School Lunch Program eligibility" >> >>,
       << "Language & Citizenship",
          << "Home Language", "English Proficiency", "Citizenship" >> >> >>

\* The assessment ordering handed to var_clean_df: assessment group -> its
\* assessments (groups as in utils_app.py:290, assessments as in 299-300).
assessment_dict_0 ==
    << << "SAT", << "SAT - Total - US - 2023" >> >>,
       << "Casper", << "Casper - US - 2024" >> >> >>

\* An assessment ordering that lists each assessment under its own group and
\* under a group of several.
assessment_dict_twice ==
    << << "SAT", << "SAT - Total - US - 2023" >> >>,
       << "Casper", << "Casper - US - 2024" >> >>,
       << "Admissions", << "SAT - Total - US - 2023", "Casper - US - 2024" >> >> >>

EmptyFrame == [ columns |-> << >>, rows |-> << >> ]
NoStyle == [ effect_size_color_scale |-> "", color_scale |-> "", custom_color_map |-> "" ]
NoArgument == [ kind |-> "None", v |-> 0 ]
\* utils_create.py:38  sheet_name = None, the default.
NoSheetName == "None"

NoSummary == [ create_full_table |-> << >>, app |-> << >>, app1 |-> << >> ]

-----------------------------------------------------------------------------
(* The session: the table is loaded, then every change of the selection    *)
(* reruns the script, and the grids are built from the filtered rows.      *)

\* Nothing has been classified, no footnote has been made.
ClassifyIdle == value = NoArgument /\ style = NoStyle
FootnoteIdle == footnote_variables = << >> /\ footnote_text = << >>

FullTableIdle == full_df = << >> /\ summary_df = NoSummary /\ rendered = << >>

\* read_google_sheet has not been called.
SheetIdle ==
    /\ sheet_name = NoSheetName
    /\ max_retries = 0
    /\ retry_delay = 0
    /\ attempt = 0
    /\ requests_log = << >>
    /\ df_bound = FALSE
    /\ read_raised = ""

\* reorder_assessment_dict has not been called.
ReorderIdle == order_list = << >> /\ reordered_assessment_dict = << >>

\* reorder_columns_by_variable has not been called.
TabIdle == variables_in_tab = << >> /\ tab_df = EmptyFrame

\* No table has been loaded.
SessionIdle ==
    /\ response_status = 0
    /\ load_result = "pending"
    /\ st_errors = << >>
    /\ merged_df = << >>
    /\ selected_variables = {}
    /\ selected_subjects = {}
    /\ selected_jurisdictions = {}
    /\ filtered_df = << >>
    /\ pivot_df = EmptyFrame
    /\ df_dict = << >>
    /\ assessment_dict = assessment_dict_0
    /\ order_dict = order_dict_0
    /\ raised = ""
    /\ calls = 0

\* Nothing but the session, the classifiers, make_footnote or the formatters
\* has run.
BesideSessionIdle == ClassifyIdle /\ FootnoteIdle /\ FullTableIdle /\ SheetIdle /\ ReorderIdle /\ TabIdle
BesideClassifyIdle == SessionIdle /\ FootnoteIdle /\ FullTableIdle /\ SheetIdle /\ ReorderIdle /\ TabIdle
BesideFootnoteIdle == SessionIdle /\ ClassifyIdle /\ FullTableIdle /\ SheetIdle /\ ReorderIdle /\ TabIdle
BesideFullTableIdle == SessionIdle /\ ClassifyIdle /\ FootnoteIdle /\ SheetIdle /\ ReorderIdle /\ TabIdle
BesideSheetIdle ==
    SessionIdle /\ ClassifyIdle /\ FootnoteIdle /\ FullTableIdle /\ ReorderIdle /\ TabIdle

\* The table has been loaded, the assessment ordering is one of adicts.
LoadedWith(tables, adicts) ==
    /\ response_status = 200
    /\ load_result = "DataFrame"
    /\ st_errors = << >>
    /\ merged_df \in tables
    /\ selected_variables = {}
    /\ selected_subjects = {}
    /\ selected_jurisdictions = {}
    /\ filtered_df = << >>
    /\ pivot_df = EmptyFrame
    /\ df_dict = << >>
    /\ assessment_dict \in adicts
    /\ order_dict = order_dict_0
    /\ raised = ""
    /\ calls = 0
    /\ BesideSessionIdle
    /\ pc = "loaded"

Loaded(tables) == LoadedWith(tables, { assessment_dict_0 })

Init == Loaded(Tables(RowUniverse, MaxRows))

\* app.py:118, 120  the options of the two multiselects.
all_variables == { r.Variable : r \in Range(merged_df) }
all_subjects == { Index(r) : r \in Range(merged_df) }

\* app.py:119, 121  a multiselect after one interaction: an option added or
\* removed (or nothing changed).
multiselect(old, options) ==
    { old \cup {x} : x \in options } \cup { old \ {x} : x \in options } \cup { old }

\* app.py:112-195  one run of the script, after an interaction with one of
\* the two multiselects.
Rerun ==
    \E variables \in multiselect(selected_variables, all_variables),
       subjects \in multiselect(selected_subjects, all_subjects) :
        /\ variables = selected_variables \/ subjects = selected_subjects
        /\ selected_variables' = variables
        /\ selected_subjects' = subjects
        /\ filtered_df' = app_filtered_df(merged_df, variables, subjects)
        /\ pivot_df' = app_pivot_df(filtered_df')
        /\ df_dict' = << >>
        /\ raised' = ""
        /\ calls' = 0
        /\ pc' = "rendered"
        /\ UNCHANGED << load_vars, merged_df, selected_jurisdictions, assessment_dict,
                        order_dict, beside_session >>

\* A variant of df_after_var_clean_df: the rows without a value are dropped
\* from df itself.
df_after_dropna_inplace(df) == Filter(df, { r \in Range(df) : ~IsNull(r.d) })

\* utils_app.py:87-101  groupby and pivot_table build new frames, and the
\* in-place calls (reset_index, sort_values) act on those: df is as it was.
df_after_var_clean_df(df) == df

\* utils_app.py:68-127  var_clean_df(filtered_df, assessment_dict, order_dict)
CallVarCleanDf ==
    /\ pc \in { "rendered", "pivoted" }
    /\ calls < MaxCalls
    /\ calls' = calls + 1
    /\ IF var_clean_df_raises(filtered_df, assessment_dict)
       THEN raised' = "ValueError" /\ df_dict' = df_dict
       ELSE raised' = "" /\ df_dict' = var_clean_df(filtered_df, assessment_dict, order_dict)
    /\ filtered_df' = df_after_var_clean_df(filtered_df)
    /\ pc' = "pivoted"
    /\ UNCHANGED << load_vars, merged_df, selected_variables, selected_subjects,
                    selected_jurisdictions, pivot_df, assessment_dict, order_dict,
                    beside_session >>

Next == Rerun \/ CallVarCleanDf

Spec == Init /\ [][Next]_vars

\* The same session on the tables that may hold a Subject that reads like an
\* Assessment key.
InitKeyLike == Loaded(Tables(RowUniverse \cup { KeyLikeSubjectRow }, MaxRows))

SpecKeyLike == InitKeyLike /\ [][Next]_vars

\* Rows of the comparison groups and of a group compared with them: the
\* "Cohen's d" of a comparison group is zero.
BaselineRows ==
    { FactRow("Citizenship", "SAT - Total", "US", 2023, "Domestic", << 0 >>),
      FactRow("Citizenship", "SAT - Total", "US", 2023, "International", << 450 >>),
      FactRow("Citizenship", "Casper", "US", 2024, "International", << 300 >>),
      FactRow("Gender", "SAT - Total", "US", 2023, "Female", << 0 >>),
      FactRow("Gender", "SAT - Total", "US", 2023, "Male", << 450 >>) }

InitBaseline == Loaded(Tables(BaselineRows, MaxRows))

SpecBaseline == InitBaseline /\ [][Next]_vars

\* The same session under either assessment ordering.
InitRegistries ==
    LoadedWith(Tables(RowUniverse, MaxRows), { assessment_dict_0, assessment_dict_twice })

SpecRegistries == InitRegistries /\ [][Next]_vars

\* app1.py:64-66, 103-111  the three multiselects of app1.py and its filter, on
\* the same tables.
App1Filter ==
    \E variables \in SUBSET { r.Variable : r \in Range(merged_df) },
       jurisdictions \in SUBSET { r.Jurisdiction : r \in Range(merged_df) },
       subjects \in SUBSET { r.Subject : r \in Range(merged_df) } :
        /\ selected_variables' = variables
        /\ selected_jurisdictions' = jurisdictions
        /\ selected_subjects' = subjects
        /\ filtered_df' = app1_filtered_df(merged_df, variables, jurisdictions, subjects)
        /\ pc' = "app1 filtered"
        /\ UNCHANGED << load_vars, merged_df, pivot_df, df_dict, assessment_dict,
                        order_dict, raised, calls, beside_session >>

NextApp1 == App1Filter

SpecApp1 == Init /\ [][NextApp1]_vars

-----------------------------------------------------------------------------
(* The session from its first line: load_original_data, then the script.   *)

\* The statuses a response may have (200, and two that are not).
Statuses == { 200, 404, 500 }

InitLoad ==
    /\ SessionIdle
    /\ BesideSessionIdle
    /\ pc = "start"

\* app.py:58-68  merged_df = load_original_data(): the table for the status
\* 200; for any other status st.error shows the message and None is returned
\* (merged_df, then not a table, stays << >> here and load_result tells).
LoadOriginalData ==
    /\ pc = "start"
    /\ \E status \in Statuses, table \in Tables(RowUniverse, MaxRows) :
          /\ response_status' = status
          /\ IF status = 200
             THEN /\ merged_df' = table
                  /\ load_result' = "DataFrame"
                  /\ st_errors' = st_errors
             ELSE /\ merged_df' = merged_df
                  /\ load_result' = "None"
                  /\ st_errors' = Append(st_errors, "Failed to load data from GitHub.")
    /\ pc' = "loaded"
    /\ UNCHANGED << selected_variables, selected_subjects, selected_jurisdictions,
                    filtered_df, pivot_df, df_dict, assessment_dict, order_dict,
                    raised, calls, beside_session >>

\* app.py:113  merged_df.loc[...] with merged_df None: AttributeError, and the
\* run of the script ends there.
ScriptOnNone ==
    /\ pc = "loaded"
    /\ load_result = "None"
    /\ raised' = "AttributeError"
    /\ pc' = "stopped"
    /\ UNCHANGED << load_vars, merged_df, selected_variables, selected_subjects,
                    selected_jurisdictions, filtered_df, pivot_df, df_dict,
                    assessment_dict, order_dict, calls, beside_session >>

\* app.py:112-195  the script on the table that was loaded.
ScriptOnTable ==
    /\ pc \notin { "start", "stopped" }
    /\ load_result = "DataFrame"
    /\ Rerun

NextLoad == LoadOriginalData \/ ScriptOnNone \/ ScriptOnTable \/ CallVarCleanDf

SpecLoad == InitLoad /\ [][NextLoad]_vars

-----------------------------------------------------------------------------
(* The classifiers applied to one argument. *)

InitClassify ==
    /\ BesideClassifyIdle
    /\ value \in Arguments
    /\ style = NoStyle
    /\ pc = "argument"

Classify ==
    /\ pc = "argument"
    /\ style' = [ effect_size_color_scale |-> effect_size_color_scale(value),
                  color_scale |-> color_scale(value),
                  custom_color_map |-> custom_color_map(value) ]
    /\ pc' = "classified"
    /\ UNCHANGED << value, beside_classify >>

NextClassify == Classify

SpecClassify == InitClassify /\ [][NextClassify]_vars

-----------------------------------------------------------------------------
(* make_footnote applied to one list of Variables. *)

InitFootnote ==
    /\ BesideFootnoteIdle
    /\ footnote_variables \in Tables(FootnoteVariables, MaxVariables)
    /\ footnote_text = << >>
    /\ pc = "footnote argument"

\* utils_app.py:138-169  make_footnote(comparison, variables)
MakeFootnote ==
    /\ pc = "footnote argument"
    /\ footnote_text' = make_footnote(comparison, footnote_variables)
    /\ pc' = "footnote made"
    /\ UNCHANGED << footnote_variables, beside_footnote >>

NextFootnote == MakeFootnote

SpecFootnote == InitFootnote /\ [][NextFootnote]_vars

-----------------------------------------------------------------------------
(* The formatters applied to one table. *)

InitFullTable ==
    /\ BesideFullTableIdle
    /\ full_df \in Tables(FullRowUniverse, MaxFullRows)
    /\ summary_df = NoSummary
    /\ rendered = << >>
    /\ pc = "table argument"

\* A variant of df_after_create_full_table: the values are rounded in df
\* itself.
df_rounded_inplace(df) ==
    [ i \in DOMAIN df |-> [ df[i] EXCEPT !.d = round_2(df[i].d) ] ]

\* utils_app.py:53-63  df[[...]] and sort_values return new frames, and the
\* assignment of line 63 is to the new frame: df is as it was.
df_after_create_full_table(df) == df

\* The tables of one row with a value to display in each numeric column.
ShownTables ==
    { << FullRow("Gender", "SAT - Total", "US", y, "Male", mean, 210500, n, d) >> :
        y \in { 999, 2023 }, mean \in { 990250, 135 }, n \in { 7, 1000 },
        d \in { NaN } \cup { << v >> : v \in (-MaxShown) .. MaxShown } }

InitShown ==
    /\ BesideFullTableIdle
    /\ full_df \in ShownTables
    /\ summary_df = NoSummary
    /\ rendered = << >>
    /\ pc = "table argument"

\* utils_app.py:40-65, app.py:152-160, app1.py:113-126, utils_app.py:311-317
\* each formatter on the table, and the export displayed with format_dict.
FormatFullTable ==
    /\ pc = "table argument"
    /\ summary_df' = [ create_full_table |-> create_full_table(full_df),
                       app |-> app_summary_df(full_df),
                       app1 |-> app1_summary_df(full_df) ]
    /\ rendered' = [ i \in DOMAIN full_df |-> format_row(summary_df'.create_full_table[i]) ]
    /\ full_df' = df_after_create_full_table(full_df)
    /\ pc' = "table formatted"
    /\ UNCHANGED beside_fulltable

NextFullTable == FormatFullTable

SpecFullTable == InitFullTable /\ [][NextFullTable]_vars

SpecShown == InitShown /\ [][NextFullTable]_vars

-----------------------------------------------------------------------------
(* utils_create.py:38-74  read_google_sheet, one action per request.        *)

\* The statuses a request of the Sheets service ends with: 200 for a result,
\* any other with an HttpError.
SheetStatuses == { 200, 403, 408, 500, 504 }

\* The values of a result: a header row at least, or none at all.
SheetValues == { "rows", "none" }

\* utils_create.py:67  every HttpError counts as a timeout.
is_timeout_any(status) == TRUE

\* utils_create.py:67  e.resp.status in [408, 504]
is_timeout(status) == status \in { 408, 504 }

\* utils_create.py:58  range(max_retries) has an item left after n iterations.
range_has_next(n, retries) == n < retries

InitSheet ==
    /\ BesideSheetIdle
    /\ sheet_name \in { NoSheetName, "Scores" }
    /\ max_retries \in 0..MaxRetries
    /\ retry_delay \in 0..MaxDelay
    /\ attempt = 0
    /\ requests_log = << >>
    /\ df_bound = FALSE
    /\ read_raised = ""
    /\ pc = "sheet called"

\* utils_create.py:52-55  with no sheet_name the spreadsheet is asked for its
\* first sheet's title; an HttpError of that request leaves the function.
ResolveSheetName ==
    /\ pc = "sheet called"
    /\ IF sheet_name = NoSheetName
       THEN \E status \in SheetStatuses :
               /\ requests_log' = Append(requests_log, << "get", status >>)
               /\ IF status = 200
                  THEN sheet_name' = "Sheet1" /\ read_raised' = read_raised
                       /\ pc' = "sheet loop"
                  ELSE sheet_name' = sheet_name /\ read_raised' = "HttpError"
                       /\ pc' = "sheet raised"
       ELSE /\ pc' = "sheet loop"
            /\ UNCHANGED << requests_log, sheet_name, read_raised >>
    /\ UNCHANGED << max_retries, retry_delay, attempt, df_bound, beside_sheet >>

\* utils_create.py:58-72  one iteration of the loop: the read, then df and the
\* break for a result, the sleep for a timeout HttpError, the raise for any
\* other; values[0] of a result without values is an IndexError.
ReadAttempt ==
    /\ pc = "sheet loop"
    /\ range_has_next(attempt, max_retries)
    /\ attempt' = attempt + 1
    /\ \E status \in SheetStatuses, values \in SheetValues :
          /\ status # 200 => values = "none"
          /\ IF status = 200
             THEN /\ requests_log' = Append(requests_log, << "read", status >>)
                  /\ IF values = "rows"
                     THEN df_bound' = TRUE /\ read_raised' = read_raised
                          /\ pc' = "sheet return"
                     ELSE df_bound' = df_bound /\ read_raised' = "IndexError"
                          /\ pc' = "sheet raised"
             ELSE IF is_timeout(status)
                  THEN /\ requests_log' = requests_log \o << << "read", status >>,
                                                            << "sleep", retry_delay >> >>
                       /\ pc' = "sheet loop"
                       /\ UNCHANGED << df_bound, read_raised >>
                  ELSE /\ requests_log' = Append(requests_log, << "read", status >>)
                       /\ read_raised' = "HttpError"
                       /\ pc' = "sheet raised"
                       /\ df_bound' = df_bound
    /\ UNCHANGED << sheet_name, max_retries, retry_delay, beside_sheet >>

\* utils_create.py:74  return df, after the break or after the last iteration;
\* df without a value is an UnboundLocalError.
ReturnDf ==
    /\ \/ pc = "sheet return"
       \/ pc = "sheet loop" /\ ~range_has_next(attempt, max_retries)
    /\ IF df_bound
       THEN pc' = "sheet returned" /\ read_raised' = read_raised
       ELSE pc' = "sheet raised" /\ read_raised' = "UnboundLocalError"
    /\ UNCHANGED << sheet_name, max_retries, retry_delay, attempt, requests_log,
                    df_bound, beside_sheet >>

NextSheet == ResolveSheetName \/ ReadAttempt \/ ReturnDf

SpecSheet == InitSheet /\ [][NextSheet]_vars

\* The function runs on: no step of it waits for anything but the service's
\* answer and the sleep.
FairSpecSheet == SpecSheet /\ WF_vars(NextSheet)

-----------------------------------------------------------------------------
(* utils_app.py:263-287  reorder_assessment_dict.                            *)

\* d[k] = v of a Python dict: a key it has keeps its place and takes the
\* value, a new key goes last.
dict_set(d, k, v) ==
    IF k \in Keys(d)
    THEN [ i \in DOMAIN d |-> IF d[i][1] = k THEN << k, v >> ELSE d[i] ]
    ELSE Append(d, << k, v >>)

RECURSIVE add_listed(_, _, _)
\* utils_app.py:278-280  the groups of olist that adict has, as they come.
add_listed(acc, adict, olist) ==
    IF olist = << >> THEN acc
    ELSE add_listed( IF Head(olist) \in Keys(adict)
                     THEN dict_set(acc, Head(olist), Get(adict, Head(olist)))
                     ELSE acc,
                     adict, Tail(olist) )

RECURSIVE add_remaining(_, _)
\* utils_app.py:283-285  then the groups not yet in the result, as adict has
\* them.
add_remaining(acc, items) ==
    IF items = << >> THEN acc
    ELSE add_remaining( IF Head(items)[1] \notin Keys(acc)
                        THEN dict_set(acc, Head(items)[1], Head(items)[2])
                        ELSE acc,
                        Tail(items) )

\* A variant of reorder_assessment_dict without the second loop: the groups
\* that order_list does not name are left out.
reorder_listed_only(adict, olist) == add_listed(<< >>, adict, olist)

\* utils_app.py:263-287
reorder_assessment_dict(adict, olist) ==
    add_remaining(add_listed(<< >>, adict, olist), adict)

\* utils_app.py:290  the groups order_list may name; "NAEP" and "LSAT" are no
\* group of the orderings handed in here.
GroupNames == { "NAEP", "SAT", "Casper", "Admissions", "LSAT" }

\* The orderings handed to reorder_assessment_dict.
AssessmentDicts == { << >>, assessment_dict_0, assessment_dict_twice }

InitReorder ==
    /\ response_status = 0
    /\ load_result = "pending"
    /\ st_errors = << >>
    /\ merged_df = << >>
    /\ selected_variables = {}
    /\ selected_subjects = {}
    /\ selected_jurisdictions = {}
    /\ filtered_df = << >>
    /\ pivot_df = EmptyFrame
    /\ df_dict = << >>
    /\ assessment_dict \in AssessmentDicts
    /\ order_dict = order_dict_0
    /\ raised = ""
    /\ calls = 0
    /\ ClassifyIdle /\ FootnoteIdle /\ FullTableIdle /\ SheetIdle /\ TabIdle
    /\ order_list \in Tables(GroupNames, MaxOrder)
    /\ reordered_assessment_dict = << >>
    /\ pc = "reorder called"

\* utils_app.py:263-287  reordered = reorder_assessment_dict(assessment_dict,
\* order_list): the function assigns to its own new OrderedDict only.
ReorderAssessmentDict ==
    /\ pc = "reorder called"
    /\ reordered_assessment_dict' = reorder_assessment_dict(assessment_dict, order_list)
    /\ pc' = "reordered"
    /\ UNCHANGED << assessment_dict, order_list, beside_reorder >>

NextReorder == ReorderAssessmentDict

SpecReorder == InitReorder /\ [][NextReorder]_vars

-----------------------------------------------------------------------------
(* utils_app.py:172-199  reorder_columns_by_variable.                        *)

\* pivot_df[names] for names without repeats: of each name every column of
\* the frame that bears it, in the order of names.
getitem_columns(frame, names) ==
    [ columns |-> Flatten([ i \in DOMAIN names |-> Filter(frame.columns, { names[i] }) ]),
      rows    |-> [ i \in DOMAIN frame.rows |->
                      [ Assessment |-> frame.rows[i].Assessment,
                        cells |-> [ g \in Range(names) \cap DOMAIN frame.rows[i].cells |->
                                      frame.rows[i].cells[g] ] ] ] ]

\* utils_app.py:187-191  the order list of variable after the insert: the list
\* is the dict's own, so the dict holds the longer list from then on.
order_list_of(frame, variable, odict) ==
    IF "Assessment" \in Range(frame.columns) /\ "Assessment" \notin Range(Get(odict, variable))
    THEN << "Assessment" >> \o Get(odict, variable)
    ELSE Get(odict, variable)

\* utils_app.py:187-191  order_dict after the step for one variable.
order_dict_after_step(frame, variable, odict) ==
    IF variable \in Keys(odict)
    THEN dict_set(odict, variable, order_list_of(frame, variable, odict))
    ELSE odict

\* utils_app.py:186-197  the frame after the step for one variable.
frame_after_step(frame, variable, odict) ==
    IF variable \in Keys(odict)
    THEN getitem_columns(frame,
             Filter(order_list_of(frame, variable, odict), Range(frame.columns)))
    ELSE frame

RECURSIVE reorder_columns_by_variable(_, _, _)
\* utils_app.py:183-199  the loop over variables_in_tab: << the frame
\* returned, order_dict afterwards >>.
reorder_columns_by_variable(frame, vs, odict) ==
    IF vs = << >> THEN << frame, odict >>
    ELSE reorder_columns_by_variable( frame_after_step(frame, Head(vs), odict),
                                      Tail(vs),
                                      order_dict_after_step(frame, Head(vs), odict) )

\* The Grouping columns of the frames handed to reorder_columns_by_variable:
\* of one Variable, of several, of none.
TabColumns == { "Male", "No Response", "< $50,000", "Eligible", "Domestic", "Other" }

\* The frame of one row with the columns cols, after 'Assessment' when
\* labelled.
TabFrame(labelled, cols) ==
    [ columns |-> (IF labelled THEN << "Assessment" >> ELSE << >>) \o cols,
      rows    |-> << [ Assessment |-> << "Casper - US - 2024" >>,
                       cells |-> [ g \in Range(cols) |-> << 450 >> ] ] >> ]

TabFrames ==
    { TabFrame(labelled, cols) :
        labelled \in BOOLEAN,
        cols \in { t \in Tables(TabColumns, MaxColumns) : Cardinality(Range(t)) = Len(t) } }

\* The lists of Variables a tab shows, and a list of a Variable that has no
\* order list.
TabVariables == { tabs_dicts[i][2] : i \in DOMAIN tabs_dicts } \cup { << "Age" >> }

InitTabs ==
    /\ SessionIdle
    /\ ClassifyIdle /\ FootnoteIdle /\ FullTableIdle /\ SheetIdle /\ ReorderIdle
    /\ variables_in_tab \in TabVariables
    /\ tab_df \in TabFrames
    /\ pc = "tab called"

\* utils_app.py:172-199  pivot_df = reorder_columns_by_variable(pivot_df,
\* variables_in_tab, order_dict), with the module's order_dict.
ReorderColumnsByVariable ==
    /\ pc = "tab called"
    /\ tab_df' = reorder_columns_by_variable(tab_df, variables_in_tab, order_dict)[1]
    /\ order_dict' = reorder_columns_by_variable(tab_df, variables_in_tab, order_dict)[2]
    /\ pc' = "tab reordered"
    /\ UNCHANGED << load_vars, merged_df, selected_variables, selected_subjects,
                    selected_jurisdictions, filtered_df, pivot_df, df_dict,
                    assessment_dict, raised, calls, variables_in_tab,
                    classify_vars, footnote_vars, fulltable_vars, sheet_vars,
                    reorder_vars >>

NextTabs == ReorderColumnsByVariable

SpecTabs == InitTabs /\ [][NextTabs]_vars

\* The tabs that show the Variable v.
TabsOf(v) == { i \in DOMAIN tabs_dicts : v \in Range(tabs_dicts[i][2]) }

\* utils_app.py:172-199  a tab reorders the grid var_clean_df made of one of
\* its Variables, with the module's order_dict.
ReorderGrid ==
    /\ pc = "pivoted"
    /\ raised = ""
    /\ \E i \in DOMAIN df_dict : \E t \in TabsOf(df_dict[i][1]) :
          LET r == reorder_columns_by_variable(df_dict[i][2], tabs_dicts[t][2], order_dict)
          IN  /\ variables_in_tab' = tabs_dicts[t][2]
              /\ tab_df' = r[1]
              /\ order_dict' = r[2]
    /\ UNCHANGED << load_vars, merged_df, selected_variables, selected_subjects,
                    selected_jurisdictions, filtered_df, pivot_df, df_dict,
                    assessment_dict, raised, calls, pc,
                    classify_vars, footnote_vars, fulltable_vars, sheet_vars,
                    reorder_vars >>

NextSessionTabs == Rerun \/ CallVarCleanDf \/ ReorderGrid

\* The rows of the tables the tabs are shown for: the rows with a value that is
\* neither null nor zero.
TabRows == { r \in RowUniverse : ~IsNull(r.d) /\ r.d # << 0 >> }

InitSessionTabs == Loaded(Tables(TabRows, MaxRows))

SpecSessionTabs == InitSessionTabs /\ [][NextSessionTabs]_vars

-----------------------------------------------------------------------------
(* What the properties below speak of. *)

\* var_clean_df has returned its dict for the current filter result.
Pivoted == pc = "pivoted" /\ raised = ""

\* The rows of table df of Variable v, in table order.
RowsOf(df, v) == Filter(df, { r \in Range(df) : r.Variable = v })

RECURSIVE Dedup(_)
\* The elements of s in first-encountered order, each once.
Dedup(s) ==
    IF s = << >> THEN << >>
    ELSE << Head(s) >> \o Dedup(Filter(Tail(s), Range(Tail(s)) \ { Head(s) }))

\* The registry's assessments, in registry order.
Registry == Flatten([ i \in DOMAIN assessment_dict |-> assessment_dict[i][2] ])

\* The row labels the ordering rule asks for: the known assessments of the
\* rows in registry order, then the unknown ones in first-encountered order.
ExpectedLabels(part) ==
    LET seen == Dedup([ k \in DOMAIN part |-> Index(part[k]) ])
    IN  Filter(Registry, Range(seen)) \o Filter(seen, Range(seen) \ Range(Registry))

RECURSIVE ValuesOf(_, _, _)
\* The "Cohen's d" of the rows of part with label a and Grouping g, in order.
ValuesOf(part, a, g) ==
    IF part = << >> THEN << >>
    ELSE ( IF Index(Head(part)) = a /\ Head(part).Grouping = g
           THEN << Head(part).d >> ELSE << >> ) \o ValuesOf(Tail(part), a, g)

RECURSIVE NonNull(_)
NonNull(ds) ==
    IF ds = << >> THEN << >>
    ELSE ( IF IsNull(Head(ds)) THEN << >> ELSE << Head(ds) >> ) \o NonNull(Tail(ds))

HeadOr(ds, default) == IF ds = << >> THEN default ELSE Head(ds)

\* The value the pivot of part holds for label a and Grouping g.
CellOf(part, a, g) == HeadOr(NonNull(ValuesOf(part, a, g)), NaN)

\* Every value of Grouping g in the pivot of part is null or exactly zero.
AllNullOrZero(part, g) ==
    \A r \in Range(part) : CellOf(part, Index(r), g) \in { NaN, << 0 >> }

-----------------------------------------------------------------------------
(* The selection filter. *)

\* C1 (as claimed): the filter's result is exactly the rows of the fact table
\* whose Variable is among the selected Variables and whose Assessment key is
\* among the selected Assessment keys, whatever the two selections are.
C1_FilterExact ==
    pc # "loaded" =>
        filtered_df = Filter(merged_df,
                             { r \in Range(merged_df) :
                                  /\ r.Variable \in selected_variables
                                  /\ Index(r) \in selected_subjects })

\* With at least one key selected the filter of app.py is exact.
FilterExactWhenSelected ==
    (pc # "loaded" /\ selected_subjects # {}) =>
        filtered_df = Filter(merged_df,
                             { r \in Range(merged_df) :
                                  /\ r.Variable \in selected_variables
                                  /\ Index(r) \in selected_subjects })

\* The statement for the filter of app1.py, whose selections are Subjects and
\* Jurisdictions: it fails there when no Subject is selected, for the rows of
\* every Subject are then returned.
App1_FilterExact ==
    pc = "app1 filtered" =>
        filtered_df = Filter(merged_df,
                             { r \in Range(merged_df) :
                                  /\ r.Variable \in selected_variables
                                  /\ r.Jurisdiction \in selected_jurisdictions
                                  /\ r.Subject \in selected_subjects })

\* With at least one Subject selected the filter of app1.py is exact.
App1_FilterExactWhenSelected ==
    (pc = "app1 filtered" /\ selected_subjects # {}) =>
        filtered_df = Filter(merged_df,
                             { r \in Range(merged_df) :
                                  /\ r.Variable \in selected_variables
                                  /\ r.Jurisdiction \in selected_jurisdictions
                                  /\ r.Subject \in selected_subjects })

-----------------------------------------------------------------------------
(* The pivot engine. *)

\* C2 (as claimed): in every Variable's grid the row labels are the
\* Assessments of the Variable's rows, each once: the ones the registry knows
\* first, in registry order, then the unknown ones in first-encountered order,
\* none dropped and each with its label.
C2_RowsArePermutation ==
    Pivoted =>
        \A i \in DOMAIN df_dict :
            LET grid   == df_dict[i][2]
                labels == ExpectedLabels(RowsOf(filtered_df, df_dict[i][1]))
            IN  /\ Len(grid.rows) = Len(labels)
                /\ \A k \in DOMAIN grid.rows : grid.rows[k].Assessment = << labels[k] >>

\* The part of C2 about the assessments the registry does not know: each has a
\* row carrying its label.  It fails: the label of such a row is NaN.
UnknownAssessmentsKeepLabel ==
    Pivoted =>
        \A i \in DOMAIN df_dict :
            \A r \in Range(RowsOf(filtered_df, df_dict[i][1])) :
                (Index(r) \notin Range(Registry) /\ ~IsNull(r.d)) =>
                    \E k \in DOMAIN df_dict[i][2].rows :
                        df_dict[i][2].rows[k].Assessment = << Index(r) >>

\* C3: in every grid the Assessment column is first; the Grouping columns
\* listed in the Variable's order list stand in the order of that list, and
\* every Grouping column is a Grouping of the Variable's rows.
C3_ColumnsFollowGroupOrder ==
    Pivoted =>
        \A i \in DOMAIN df_dict :
            LET v     == df_dict[i][1]
                cols  == df_dict[i][2].columns
                shown == Tail(cols)
            IN  /\ cols # << >> /\ Head(cols) = "Assessment"
                /\ Range(shown) \subseteq { r.Grouping : r \in Range(RowsOf(filtered_df, v)) }
                /\ v \in Keys(order_dict) =>
                      LET order  == Get(order_dict, v)
                          listed == Filter(shown, Range(order))
                      IN  listed = Filter(order, Range(listed))

\* A grid with two ordered Grouping columns, in the order list's order and not
\* in the alphabetical order of the pivot.
C3_Witness ==
    /\ Pivoted
    /\ \E i \in DOMAIN df_dict :
          /\ df_dict[i][1] = "Gender"
          /\ df_dict[i][2].columns = << "Assessment", "Male", "Another gender" >>

\* C4 (as claimed): the Groupings of a Variable's rows that its order list
\* does not name (all of them when the Variable has no order list) are the
\* last columns of the Variable's grid, in first-encountered order.
C4_UnlistedGroupingsTrail ==
    Pivoted =>
        \A i \in DOMAIN df_dict :
            LET v        == df_dict[i][1]
                cols     == df_dict[i][2].columns
                part     == RowsOf(filtered_df, v)
                named    == IF v \in Keys(order_dict) THEN Range(Get(order_dict, v)) ELSE {}
                seen     == Dedup([ k \in DOMAIN part |-> part[k].Grouping ])
                unlisted == Filter(seen, Range(seen) \ named)
            IN  /\ Len(unlisted) <= Len(cols)
                /\ SubSeq(cols, Len(cols) - Len(unlisted) + 1, Len(cols)) = unlisted

\* C5 (as claimed): a Grouping of a Variable's rows is missing from the
\* Variable's grid exactly when every value of its column is null or exactly
\* zero, and the Assessment column is never missing.
C5_DroppedIffNullOrZero ==
    Pivoted =>
        \A i \in DOMAIN df_dict :
            LET cols == df_dict[i][2].columns
                part == RowsOf(filtered_df, df_dict[i][1])
            IN  /\ "Assessment" \in Range(cols)
                /\ \A g \in { r.Grouping : r \in Range(part) } :
                      (g \notin Range(cols)) <=> AllNullOrZero(part, g)

\* The same statement for the grid of app.py, which pivots the rows of all
\* selected Variables together: it fails there for a column of zeros and nulls.
App_DroppedIffNullOrZero ==
    (pc = "rendered" /\ filtered_df # << >>) =>
        \A g \in { r.Grouping : r \in Range(filtered_df) } :
            (g \notin Range(pivot_df.columns)) <=> AllNullOrZero(filtered_df, g)

C7_OneGridPerVariable ==
    pc = "pivoted" =>
        /\ raised = ""
        /\ Len(df_dict) = Cardinality(Keys(df_dict))
        /\ Keys(df_dict) = { r.Variable : r \in Range(filtered_df) }
        /\ \A i \in DOMAIN df_dict :
              LET grid == df_dict[i][2]
                  part == RowsOf(filtered_df, df_dict[i][1])
              IN  /\ Len(grid.rows) <= Cardinality({ Index(r) : r \in Range(part) })
                  /\ \A k \in DOMAIN grid.rows :
                        /\ ~IsNull(grid.rows[k].Assessment) =>
                              \E r \in Range(part) : grid.rows[k].Assessment = << Index(r) >>
                        /\ \A g \in DOMAIN grid.rows[k].cells :
                              ~IsNull(grid.rows[k].cells[g]) =>
                                  \E r \in Range(part) :
                                      r.Grouping = g /\ r.d = grid.rows[k].cells[g]

\* Two Variables are selected, one of them without rows in the filter's result
\* and so without a grid.
C7_Witness ==
    /\ Pivoted
    /\ df_dict # << >>
    /\ \E v \in selected_variables : v \notin Keys(df_dict)
    /\ \E r \in Range(merged_df) : r.Variable \in selected_variables \ Keys(df_dict)

-----------------------------------------------------------------------------
(* The classifiers. *)

\* The band the banding rule gives an absolute value a (in thousandths).
Band(a) ==
    CASE a <= 200 -> "NEGLIGIBLE"
      [] a > 200 /\ a <= 400 -> "SMALL"
      [] a > 400 /\ a <= 600 -> "SMALL_MODERATE"
      [] a > 600 /\ a <= 800 -> "MODERATE"
      [] a > 800 /\ a <= 1000 -> "MODERATE_LARGE"
      [] a > 1000 /\ a <= 1200 -> "LARGE"
      [] a > 1200 -> "VERY_LARGE"

C10_Symmetric ==
    (pc = "classified" /\ IsNumber(value)) =>
        /\ style.effect_size_color_scale = effect_size_color_scale(Negated(value))
        /\ style.custom_color_map = custom_color_map(Negated(value))
        /\ style.color_scale = color_scale(Negated(value))

\* -0.45 is classified, SMALL_MODERATE like 0.45.
C10_Witness ==
    /\ pc = "classified"
    /\ value = [ kind |-> "float", v |-> -450 ]
    /\ style.effect_size_color_scale = "background-color: #ECEED0"
    /\ style.custom_color_map = "background-color: #ECEED0"

\* C11 (as claimed): for None, NaN or a string every copy of the classifier
\* returns the style of no band, and returns it: none of them raises.
C11_NonNumericUnclassified ==
    (pc = "classified" /\ ~IsNumber(value)) =>
        /\ legend_band(style.effect_size_color_scale) = "UNCLASSIFIED"
        /\ style.color_scale # "raise TypeError"
        /\ app_legend_band(style.color_scale) = "UNCLASSIFIED"
        /\ style.custom_color_map # "raise TypeError"
        /\ app1_legend_band(style.custom_color_map) = "UNCLASSIFIED"

\* effect_size_color_scale alone does what C11 says, and the two other copies
\* do for NaN.
UtilsCopyNonNumericUnclassified ==
    (pc = "classified" /\ ~IsNumber(value)) =>
        /\ style.effect_size_color_scale = ""
        /\ value.kind = "nan" =>
              /\ style.color_scale = "#FFFFFF"
              /\ style.custom_color_map = ""

\* C12 (as claimed): the three copies give every argument the same band, and
\* agree on whether it has one.
C12_CopiesAgree ==
    pc = "classified" =>
        /\ style.color_scale # "raise TypeError"
        /\ style.custom_color_map # "raise TypeError"
        /\ app_legend_band(style.color_scale) = legend_band(style.effect_size_color_scale)
        /\ app1_legend_band(style.custom_color_map) = legend_band(style.effect_size_color_scale)

\* The copies agree on every number other than zero.
CopiesAgreeOffZero ==
    (pc = "classified" /\ IsNumber(value) /\ value.v # 0) =>
        /\ app_legend_band(style.color_scale) = legend_band(style.effect_size_color_scale)
        /\ app1_legend_band(style.custom_color_map) = legend_band(style.effect_size_color_scale)

\* The copies disagree on zero: custom_color_map gives it no band.
CopiesAgreeOnZero ==
    (pc = "classified" /\ IsNumber(value) /\ value.v = 0) =>
        app1_legend_band(style.custom_color_map) = legend_band(style.effect_size_color_scale)

-----------------------------------------------------------------------------
(* The comparison groups. *)

\* C13: the footnote of a list of Variables is the heading and then one line
\* for each Variable of the list, in the list's order; the line of a Variable
\* of the comparison map names its configured group, the line of any other
\* Variable names 'Unknown'; make_footnote returns for every list.
C13_FootnoteLines ==
    pc = "footnote made" =>
        /\ Len(footnote_text) = Len(footnote_variables) + 1
        /\ \A i \in DOMAIN footnote_variables :
              LET var   == footnote_variables[i]
                  group == IF \E p \in Range(comparison) : p[1] = var
                           THEN (CHOOSE p \in Range(comparison) : p[1] = var)[2]
                           ELSE "Unknown"
              IN  footnote_text[i + 1]
                      = "The comparison group for <code>" \o var \o "</code> is <b>"
                            \o group \o "</b><br>"

\* A footnote of three lines, the second for a Variable without a comparison
\* group, the first and the third for Variables not in the map's order.
C13_Witness ==
    /\ pc = "footnote made"
    /\ footnote_variables = << "Citizenship", "Age", "Gender" >>
    /\ footnote_text[2] = "The comparison group for <code>Citizenship</code> is <b>Domestic</b><br>"
    /\ footnote_text[3] = "The comparison group for <code>Age</code> is <b>Unknown</b><br>"
    /\ footnote_text[4] = "The comparison group for <code>Gender</code> is <b>Female</b><br>"

-----------------------------------------------------------------------------
(* The full-table formatters. *)

\* The nine columns of the export.
NineColumns ==
    { "Variable", "Subject", "Jurisdiction", "Year", "Grouping", "Mean", "SD", "N", "d" }

\* table holds row r as often as the rows of full_df, cut to the columns of r,
\* do.
SameCount(table, r) ==
    Cardinality({ i \in DOMAIN table : table[i] = r })
        = Cardinality({ i \in DOMAIN full_df :
                           [ c \in DOMAIN r |-> full_df[i][c] ] = r })

\* table has the rows of full_df, each once, cut to the nine columns, in
\* ascending order of (Variable, Jurisdiction, Year, Grouping), the Year
\* compared as a number.
SortedExport(table) ==
    /\ Len(table) = Len(full_df)
    /\ \A i \in DOMAIN table : DOMAIN table[i] = NineColumns
    /\ \A i \in DOMAIN table : SameCount(table, table[i])
    /\ \A i, j \in DOMAIN table :
          i < j => ~TupleLess(<< Rank(table[j].Variable), Rank(table[j].Jurisdiction),
                                 table[j].Year, Rank(table[j].Grouping) >>,
                              << Rank(table[i].Variable), Rank(table[i].Jurisdiction),
                                 table[i].Year, Rank(table[i].Grouping) >>)

\* C14 (as claimed): each of the three formatters returns every row of its
\* table once, cut to the nine columns Variable .. Cohen's d, in ascending
\* order of (Variable, Jurisdiction, Year, Grouping) with the Year compared as
\* a number.
C14_SortedExport ==
    pc = "table formatted" =>
        /\ SortedExport(summary_df.create_full_table)
        /\ SortedExport(summary_df.app)
        /\ SortedExport(summary_df.app1)

\* create_full_table and the summary of app.py do what C14 says.
UtilsAndAppSortedExport ==
    pc = "table formatted" =>
        /\ SortedExport(summary_df.create_full_table)
        /\ SortedExport(summary_df.app)

\* The number a Year string of the summary of app1.py stands for.
YearOf(str) == CHOOSE y \in { r.Year : r \in Range(full_df) } : ToString(y) = str

\* The summary of app1.py has every row once, but without the column
\* Cohen's d and with two columns renamed.
App1SummaryRows ==
    pc = "table formatted" =>
        /\ Len(summary_df.app1) = Len(full_df)
        /\ \A i \in DOMAIN summary_df.app1 :
              /\ DOMAIN summary_df.app1[i]
                    = { "Selected Variable", "Subject", "Selected Jurisdiction", "Year",
                        "Grouping", "Mean", "SD", "N" }
              /\ \E k \in DOMAIN full_df :
                    /\ summary_df.app1[i]["Selected Variable"] = full_df[k].Variable
                    /\ summary_df.app1[i]["Selected Jurisdiction"] = full_df[k].Jurisdiction
                    /\ summary_df.app1[i].Year = ToString(full_df[k].Year)
                    /\ \A c \in { "Subject", "Grouping", "Mean", "SD", "N" } :
                          summary_df.app1[i][c] = full_df[k][c]

\* The part of C14 about the Year, for the summary of app1.py: among rows of
\* one Variable and one Jurisdiction the Years ascend as numbers.  It fails:
\* they ascend as strings, '2023' before '999'.
App1SummaryYearsAscend ==
    pc = "table formatted" =>
        \A i, j \in DOMAIN summary_df.app1 :
            ( /\ i < j
              /\ summary_df.app1[i]["Selected Variable"] = summary_df.app1[j]["Selected Variable"]
              /\ summary_df.app1[i]["Selected Jurisdiction"]
                    = summary_df.app1[j]["Selected Jurisdiction"] )
            => YearOf(summary_df.app1[i].Year) <= YearOf(summary_df.app1[j].Year)

\* The digit a character shows.
DigitValue(c) == CHOOSE k \in 0 .. 9 : ToString(k) = c

RECURSIVE NumberOf(_)
\* The natural number a sequence of digit characters shows.
NumberOf(ds) ==
    IF ds = << >> THEN 0
    ELSE NumberOf(SubSeq(ds, 1, Len(ds) - 1)) * 10 + DigitValue(ds[Len(ds)])

\* The float a displayed string parses to, in thousandths: 'nan' is NaN, a
\* leading '-' negates (-0.00 is 0), at most two decimals follow the point.
ParseFloat(chars) ==
    IF chars = << "n", "a", "n" >> THEN NaN
    ELSE LET neg  == chars[1] = "-"
             body == IF neg THEN Tail(chars) ELSE chars
             dots == { i \in DOMAIN body : body[i] = "." }
             dot  == IF dots = {} THEN Len(body) + 1 ELSE CHOOSE i \in dots : TRUE
             frac == SubSeq(body, dot + 1, Len(body))
             val  == NumberOf(SubSeq(body, 1, dot - 1)) * 1000
                        + ( CASE Len(frac) = 0 -> 0
                              [] Len(frac) = 1 -> NumberOf(frac) * 100
                              [] Len(frac) = 2 -> NumberOf(frac) * 10 )
         IN  << IF neg THEN -val ELSE val >>

-----------------------------------------------------------------------------
(* The load of the fact table. *)

\* C16 (as claimed): once the load has failed the message has been shown, and
\* then and ever after no filter result, grid or dict of grids is computed and
\* no error is raised.
C16_DataUnavailable ==
    load_result = "None" =>
        /\ st_errors = << "Failed to load data from GitHub." >>
        /\ filtered_df = << >>
        /\ pivot_df = EmptyFrame
        /\ df_dict = << >>
        /\ raised = ""

\* After a failed load the message has been shown and no view is computed.
NoViewAfterFailedLoad ==
    load_result = "None" =>
        /\ response_status # 200
        /\ st_errors = << "Failed to load data from GitHub." >>
        /\ filtered_df = << >>
        /\ pivot_df = EmptyFrame
        /\ df_dict = << >>

-----------------------------------------------------------------------------
(* The pivot engine's errors. *)

\* C17 (as claimed): whatever the table and the orderings, an assessment listed
\* under two groups included, var_clean_df returns its dict: it never ends
\* with an exception.
C17_PivotTotal ==
    pc = "pivoted" => raised = ""

\* var_clean_df returns its dict whenever no assessment of the table is listed
\* twice in the ordering, and ends with ValueError whenever one is and has a
\* value in the table it is given.
PivotTotalUnlessListedTwice ==
    pc = "pivoted" =>
        LET twice == { a \in Range(Registry) :
                         Cardinality({ k \in DOMAIN Registry : Registry[k] = a }) > 1 }
            shown == { Index(r) : r \in { x \in Range(filtered_df) : ~IsNull(x.d) } }
        IN  (raised = "ValueError") <=> (twice \cap shown # {})

\* C18 (as claimed): with no Assessment key selected the filter's result has no
\* row, whatever Variables are selected, and var_clean_df makes of it the empty
\* dict and raises nothing.
C18_EmptySelectionEmptyResult ==
    (pc \in { "rendered", "pivoted" } /\ selected_subjects = {}) =>
        /\ filtered_df = << >>
        /\ pc = "pivoted" => (df_dict = << >> /\ raised = "")

\* The statement for the filter of app1.py, with no Subject selected.  It
\* fails: the rows of every Subject are returned.
App1_EmptySelectionEmptyResult ==
    (pc = "app1 filtered" /\ selected_subjects = {}) => filtered_df = << >>

\* var_clean_df makes the empty dict of a table without rows, and raises
\* nothing.
EmptyTableEmptyDict ==
    (pc = "pivoted" /\ filtered_df = << >>) => (df_dict = << >> /\ raised = "")

-----------------------------------------------------------------------------
(* Duplicate keys. *)

\* Rows i and j of df have the same Variable, Assessment and Grouping and
\* different "Cohen's d".
Collide(df, i, j) ==
    /\ df[i].Variable = df[j].Variable
    /\ Index(df[i]) = Index(df[j])
    /\ df[i].Grouping = df[j].Grouping
    /\ df[i].d # df[j].d

\* The extra rows of df: the rows that collide with a row before them.
ExtraRows(df) == { j \in DOMAIN df : \E i \in 1..(j - 1) : Collide(df, i, j) }

\* The number of collisions a pivot of df meets, one per extra row.
Collisions(df) == Cardinality(ExtraRows(df))

\* df without its row j.
WithoutRow(df, j) == [ k \in 1..(Len(df) - 1) |-> IF k < j THEN df[k] ELSE df[k + 1] ]

\* What a call of var_clean_df leaves to read: the dict it returns, or the
\* exception it ends with.
left_by_var_clean_df(df, adict, odict) ==
    IF var_clean_df_raises(df, adict)
    THEN << "ValueError" >>
    ELSE << "", var_clean_df(df, adict, odict) >>

\* C19 (as claimed): the number of collisions a pivot call met, one per extra
\* row of a duplicate key with a different "Cohen's d", can be read after the
\* call: a call on a table with one row fewer that met another number of
\* collisions leaves something else behind.
C19_CollisionsReadable ==
    pc = "pivoted" =>
        \A j \in DOMAIN filtered_df :
            LET other == WithoutRow(filtered_df, j)
            IN  Collisions(other) # Collisions(filtered_df) =>
                    left_by_var_clean_df(other, assessment_dict, order_dict)
                        # left_by_var_clean_df(filtered_df, assessment_dict, order_dict)

\* A pivot call writes the dict, the exception and nothing else: no other part
\* of the state counts the collisions it met.
PivotWritesDictOnly ==
    [][ CallVarCleanDf =>
            /\ UNCHANGED << load_vars, merged_df, selected_variables, selected_subjects,
                            selected_jurisdictions, filtered_df, pivot_df,
                            assessment_dict, order_dict, beside_session >>
            /\ << raised', df_dict' >>
                   = IF raised' = ""
                     THEN << "", var_clean_df(filtered_df, assessment_dict, order_dict) >>
                     ELSE << "ValueError", df_dict >> ]_vars

\* A pivot call has met a collision.
PivotMetCollision == pc = "pivoted" /\ Collisions(filtered_df) > 0

-----------------------------------------------------------------------------
(* The retries of read_google_sheet. *)

\* The places of the read attempts in the log of requests and sleeps.
ReadsIn(log) == { k \in DOMAIN log : log[k][1] = "read" }

\* C20: read_google_sheet makes at most max_retries read attempts; an attempt
\* after the first comes directly after a wait of retry_delay seconds that
\* itself comes directly after an attempt that failed with status 408 or 504;
\* nothing follows a successful read; an HttpError of any other status is the
\* last thing that happens, with no wait, and it is what leaves the function.
C20_RetryOnlyAfterTimeout ==
    LET reads == ReadsIn(requests_log)
    IN  /\ Cardinality(reads) <= max_retries
        /\ \A k \in reads :
              (\E j \in reads : j < k) =>
                  /\ k >= 3
                  /\ requests_log[k - 1] = << "sleep", retry_delay >>
                  /\ requests_log[k - 2][1] = "read"
                  /\ requests_log[k - 2][2] \in { 408, 504 }
        /\ \A k \in reads :
              requests_log[k][2] = 200 => k = Len(requests_log)
        /\ \A k \in reads :
              requests_log[k][2] \notin { 200, 408, 504 } =>
                  /\ k = Len(requests_log)
                  /\ pc = "sheet raised"
                  /\ read_raised = "HttpError"

\* A timeout, the wait, a further attempt that fails with another HttpError:
\* the error has left the function.
C20_Witness ==
    /\ pc = "sheet raised"
    /\ read_raised = "HttpError"
    /\ max_retries > 2
    /\ retry_delay > 0
    /\ \E k \in ReadsIn(requests_log) :
          /\ k >= 3
          /\ requests_log[k][2] = 403
          /\ requests_log[k - 1] = << "sleep", retry_delay >>
          /\ requests_log[k - 2] = << "read", 504 >>

\* A timeout, the wait, and a further attempt that succeeds: the table is
\* returned.
ReadAfterRetry ==
    /\ pc = "sheet returned"
    /\ \E k \in ReadsIn(requests_log) :
          /\ k >= 3
          /\ requests_log[k][2] = 200
          /\ requests_log[k - 2] = << "read", 408 >>

-----------------------------------------------------------------------------
(* The reordering of the assessment groups. *)

\* The keys of a dict, in its order.
KeyList(d) == [ i \in DOMAIN d |-> d[i][1] ]

\* C21: reorder_assessment_dict returns a mapping with the groups of
\* assessment_dict, each once: first those order_list names, in the order of
\* order_list, then the others in their original order, each with its own
\* list of assessments; entries of order_list that are no group are ignored,
\* and assessment_dict is left as it was.
C21_ReorderedGroups ==
    /\ [] ( pc = "reordered" =>
              LET groups == Keys(assessment_dict)
              IN  /\ Keys(reordered_assessment_dict) = groups
                  /\ Len(reordered_assessment_dict) = Cardinality(groups)
                  /\ KeyList(reordered_assessment_dict)
                        = Dedup(Filter(order_list, groups))
                          \o Filter(KeyList(assessment_dict), groups \ Range(order_list))
                  /\ \A i \in DOMAIN reordered_assessment_dict :
                        reordered_assessment_dict[i][2]
                            = Get(assessment_dict, reordered_assessment_dict[i][1]) )
    /\ [][ assessment_dict' = assessment_dict ]_vars

\* An order_list that names no group first and then the second group of
\* three: the second group comes first, the others follow as they were.
C21_Witness ==
    /\ pc = "reordered"
    /\ assessment_dict = assessment_dict_twice
    /\ order_list = << "NAEP", "Casper", "Casper" >>
    /\ KeyList(reordered_assessment_dict) = << "Casper", "SAT", "Admissions" >>

-----------------------------------------------------------------------------
(* The columns of a tab's frame. *)

\* The order lists of the Variables vs that odict has, one after the other.
OrderListsOf(vs, odict) ==
    Flatten([ i \in DOMAIN vs |->
                IF vs[i] \in Keys(odict) THEN Get(odict, vs[i]) ELSE << >> ])

\* 'Assessment' when frame has it, then the columns of frame in the order
\* list of any of the Variables vs, in the order of the lists.
ExpectedTabColumns(frame, vs, odict) ==
    ( IF "Assessment" \in Range(frame.columns) THEN << "Assessment" >> ELSE << >> )
    \o Dedup(Filter(OrderListsOf(vs, odict), Range(frame.columns) \ { "Assessment" }))

\* C22 (as claimed): for a tab whose Variables have order lists, the frame
\* reorder_columns_by_variable returns has 'Assessment' (when the frame it was
\* given has it) and then every column of that frame that is in the order
\* list of any of the tab's Variables, in order-list order; for Variables
\* without an order list it returns the frame as it was given.
C22_TabColumns ==
    [][ ReorderColumnsByVariable =>
          IF \A i \in DOMAIN variables_in_tab : variables_in_tab[i] \in Keys(order_dict)
          THEN tab_df'.columns = ExpectedTabColumns(tab_df, variables_in_tab, order_dict)
          ELSE tab_df' = tab_df ]_vars

\* The statement for the tabs of one Variable, and of none with an order list.
OneVariableTabColumns ==
    [][ ( ReorderColumnsByVariable /\ Len(variables_in_tab) = 1 ) =>
          IF variables_in_tab[1] \in Keys(order_dict)
          THEN tab_df'.columns = ExpectedTabColumns(tab_df, variables_in_tab, order_dict)
          ELSE tab_df' = tab_df ]_vars

\* What the loop does for a tab of several Variables: a column stays only when
\* it is in the order list of every one of them.
SeveralVariablesKeepCommonColumns ==
    [][ ( ReorderColumnsByVariable
          /\ \A i \in DOMAIN variables_in_tab : variables_in_tab[i] \in Keys(order_dict) ) =>
          Range(tab_df'.columns) \ { "Assessment" }
              = { c \in Range(tab_df.columns) :
                    \A i \in DOMAIN variables_in_tab :
                        c \in Range(Get(order_dict, variables_in_tab[i])) } ]_vars

-----------------------------------------------------------------------------
(* The ordering configuration across calls. *)

\* C23 (as claimed): no step changes order_dict, and the grids var_clean_df
\* returns are at any time those it makes with the ordering as configured,
\* each with one 'Assessment' column, however many calls of
\* reorder_columns_by_variable came before.
C23_OrderingStatic ==
    /\ [][ order_dict' = order_dict ]_vars
    /\ [] ( Pivoted =>
              /\ df_dict = var_clean_df(filtered_df, assessment_dict, order_dict_0)
              /\ \A i \in DOMAIN df_dict :
                    Len(Filter(df_dict[i][2].columns, { "Assessment" })) = 1 )

\* var_clean_df itself leaves order_dict as it is.
VarCleanDfKeepsOrderDict ==
    [][ CallVarCleanDf => order_dict' = order_dict ]_vars

\* The grids of var_clean_df have one 'Assessment' column.  It fails after a
\* call of reorder_columns_by_variable: the grid has two.
OneAssessmentColumn ==
    Pivoted => \A i \in DOMAIN df_dict :
                   Len(Filter(df_dict[i][2].columns, { "Assessment" })) = 1

\* When reorder_columns_by_variable changes order_dict, it is by putting
\* 'Assessment' at the head of the order lists of the tab's Variables.
ReorderInsertsAssessment ==
    [][ ReorderGrid =>
          \A k \in DOMAIN order_dict :
              /\ order_dict'[k][1] = order_dict[k][1]
              /\ order_dict'[k][2] \in { order_dict[k][2],
                                         << "Assessment" >> \o order_dict[k][2] }
              /\ order_dict'[k][2] # order_dict[k][2] =>
                    order_dict[k][1] \in Range(variables_in_tab') ]_vars

-----------------------------------------------------------------------------
(* How read_google_sheet ends. *)

\* The spreadsheet's title was asked for and the request failed.
TitleRequestFailed ==
    \E k \in DOMAIN requests_log :
        requests_log[k][1] = "get" /\ requests_log[k][2] # 200

\* Every one of the max_retries read attempts was made and failed with a
\* timeout.
AllAttemptsTimedOut ==
    /\ ~TitleRequestFailed
    /\ Cardinality(ReadsIn(requests_log)) = max_retries
    /\ \A k \in ReadsIn(requests_log) : requests_log[k][2] \in { 408, 504 }

\* C24 (as claimed): read_google_sheet returns a table only when an attempt
\* succeeded; when all max_retries attempts have timed out (or max_retries is
\* 0) it ends with the read failure, an HttpError, and with no other error;
\* and no wait follows the last of max_retries attempts.
C24_EndsWithReadFailure ==
    /\ pc = "sheet returned" =>
          \E k \in ReadsIn(requests_log) : requests_log[k][2] = 200
    /\ (pc = "sheet raised" /\ AllAttemptsTimedOut) => read_raised = "HttpError"
    /\ (attempt = max_retries /\ requests_log # << >>) =>
          requests_log[Len(requests_log)][1] # "sleep"

\* read_google_sheet returns a table only when an attempt succeeded.
ReturnsOnlyAfterSuccess ==
    pc = "sheet returned" =>
        /\ df_bound
        /\ \E k \in ReadsIn(requests_log) : requests_log[k][2] = 200

\* When all attempts have timed out, or there was none to make, the function
\* ends with UnboundLocalError, after a wait that follows the last attempt.
EndsUnboundAfterTimeouts ==
    (pc = "sheet raised" /\ AllAttemptsTimedOut) =>
        /\ read_raised = "UnboundLocalError"
        /\ max_retries > 0 =>
              requests_log[Len(requests_log)] = << "sleep", retry_delay >>

\* read_google_sheet ends: it returns or an exception leaves it.
SheetCallEnds == <>(pc \in { "sheet returned", "sheet raised" })

-----------------------------------------------------------------------------
(* The comparison groups and the order lists. *)

\* The Variables the tabs show.
TabbedVariables == UNION { Range(tabs_dicts[i][2]) : i \in DOMAIN tabs_dicts }

\* C25 (as claimed): no Variable's comparison group is in its order list, no
\* grid of var_clean_df has a column for its Variable's comparison group, and
\* order_dict, comparison and the tabs name the same Variables.
C25_NoBaselineColumn ==
    /\ \A v \in Keys(order_dict) \cap Keys(comparison) :
          Get(comparison, v) \notin Range(Get(order_dict, v))
    /\ Pivoted =>
          \A i \in DOMAIN df_dict :
              df_dict[i][1] \in Keys(comparison) =>
                  Get(comparison, df_dict[i][1]) \notin Range(df_dict[i][2].columns)
    /\ Keys(order_dict) = Keys(comparison)
    /\ Keys(comparison) = TabbedVariables

\* The statement for the grids alone.  It fails for 'Citizenship': the grid
\* has the column 'Domestic'.
GridWithoutBaselineColumn ==
    Pivoted =>
        \A i \in DOMAIN df_dict :
            df_dict[i][1] \in Keys(comparison) =>
                Get(comparison, df_dict[i][1]) \notin Range(df_dict[i][2].columns)

\* order_dict, comparison and the tabs name the same Variables.
SameVariables ==
    /\ Keys(order_dict) = Keys(comparison)
    /\ Keys(comparison) = TabbedVariables

\* The Variables whose comparison group is in their order list are 'Family
\* Income', 'Citizenship' and 'Home Language'; a grid has the column of its
\* Variable's comparison group whenever the Variable is one of these and the
\* table has a value for the group, and never otherwise.
BaselineColumnIffListed ==
    /\ { v \in Keys(order_dict_0) : Get(comparison, v) \in Range(Get(order_dict_0, v)) }
          = { "Family Income", "Citizenship", "Home Language" }
    /\ Pivoted =>
          \A i \in DOMAIN df_dict :
              LET v == df_dict[i][1]
                  b == Get(comparison, v)
              IN  b \in Range(df_dict[i][2].columns)
                      <=> /\ b \in Range(Get(order_dict, v))
                          /\ \E r \in Range(filtered_df) :
                                r.Variable = v /\ r.Grouping = b /\ ~IsNull(r.d)

=============================================================================
